---- MODULE Spec2Model ----
(***************************************************************************)
(* rtd: regular expression -> DFA (src/main.cpp).                          *)
(*                                                                         *)
(* Characters are their ASCII codes, strings are sequences of characters,  *)
(* graph states are 0-based indices as in the source (sequence position    *)
(* i + 1 holds state i).                                                   *)
(***************************************************************************)
EXTENDS Integers, Sequences, FiniteSets, TLC

(***************************************************************************)
(* Macros (src/main.cpp:20-34) and character codes                         *)
(***************************************************************************)
S_LAMBDA == 0
OP_CONCAT == 46
OP_UNION == 124
OP_KLEENE == 42
OP_PLUS == 43
OP_OPT == 63
LPAREN == 40
RPAREN == 41
CH_a == 97
CH_b == 98
CH_z == 122
CH_A == 65
CH_Z == 90
CH_0 == 48
CH_9 == 57
START_UNINITIALIZED == -1

VISITED == 1
START == 2
FINAL == 4

DEFAULT_ALPHABET == CH_a..CH_z
ALL_ALPHANUMS == (CH_a..CH_z) \cup (CH_A..CH_Z) \cup (CH_0..CH_9)

(* u32 flag words restricted to the three bits the program uses *)
HasFlag(w, f) == (w \div f) % 2 = 1
SetFlag(w, f) == IF HasFlag(w, f) THEN w ELSE w + f
ClearFlag(w, f) == IF HasFlag(w, f) THEN w - f ELSE w

(* OP_PREC table, 0 for every character that is not an operator *)
OP_PREC(c) ==
    IF c \in {OP_KLEENE, OP_PLUS, OP_OPT} THEN 3
    ELSE IF c = OP_CONCAT THEN 2
    ELSE IF c = OP_UNION THEN 1
    ELSE 0

(* type_of(token), reading the global in_alphabet table *)
type_of(token, alpha) ==
    IF token \in alpha THEN "REGULAR"
    ELSE IF OP_PREC(token) # 0 THEN "OPERATOR"
    ELSE IF token = LPAREN THEN "LEFT_PAREN"
    ELSE IF token = RPAREN THEN "RIGHT_PAREN"
    ELSE "ERROR"

(***************************************************************************)
(* add_concatenation_op                                                    *)
(***************************************************************************)
NeedsConcat(a, b, alpha) ==
    LET t_a == type_of(a, alpha)
        t_b == type_of(b, alpha)
    IN  \/ (t_a = "REGULAR" /\ t_b = "REGULAR")
        \/ (t_a = "REGULAR" /\ b = LPAREN)
        \/ (a = OP_KLEENE /\ t_b = "REGULAR")
        \/ (a = OP_KLEENE /\ b = LPAREN)
        \/ (a = OP_PLUS /\ t_b = "REGULAR")
        \/ (a = OP_PLUS /\ b = LPAREN)
        \/ (a = OP_OPT /\ t_b = "REGULAR")
        \/ (a = OP_OPT /\ b = LPAREN)
        \/ (a = RPAREN /\ t_b = "REGULAR")
        \/ (a = RPAREN /\ b = LPAREN)

RECURSIVE ConcatLoop(_, _, _, _)
ConcatLoop(s, i, result, alpha) ==
    IF i > Len(s) THEN result
    ELSE ConcatLoop(s, i + 1,
                    (IF NeedsConcat(s[i - 1], s[i], alpha)
                        THEN Append(result, OP_CONCAT) ELSE result) \o <<s[i]>>,
                    alpha)

add_concatenation_op(s, alpha) ==
    IF s = <<>> THEN <<>> ELSE ConcatLoop(s, 2, <<s[1]>>, alpha)

(***************************************************************************)
(* get_postfix: shunting yard.  The operator stack is a sequence whose     *)
(* last element is the top.  Result: [ok, postfix].                        *)
(***************************************************************************)
Top(st) == st[Len(st)]
Pop(st) == SubSeq(st, 1, Len(st) - 1)

(* the loop popping only operators of strictly higher precedence *)
RECURSIVE PopHigher_Strict(_, _, _)
PopHigher_Strict(token, out, ops) ==
    IF ops = <<>> THEN [out |-> out, ops |-> ops]
    ELSE IF Top(ops) = LPAREN THEN [out |-> out, ops |-> ops]
    ELSE IF OP_PREC(Top(ops)) <= OP_PREC(token) THEN [out |-> out, ops |-> ops]
    ELSE PopHigher_Strict(token, Append(out, Top(ops)), Pop(ops))

(* for (;;) loop of the OPERATOR case: pops operators of precedence >= token *)
RECURSIVE PopHigher(_, _, _)
PopHigher(token, out, ops) ==
    IF ops = <<>> THEN [out |-> out, ops |-> ops]
    ELSE IF Top(ops) = LPAREN THEN [out |-> out, ops |-> ops]
    ELSE IF OP_PREC(Top(ops)) < OP_PREC(token) THEN [out |-> out, ops |-> ops]
    ELSE PopHigher(token, Append(out, Top(ops)), Pop(ops))

(* while loop of the RIGHT_PAREN case *)
RECURSIVE PopToParen(_, _)
PopToParen(out, ops) ==
    IF ops # <<>> /\ Top(ops) # LPAREN
        THEN PopToParen(Append(out, Top(ops)), Pop(ops))
        ELSE [out |-> out, ops |-> ops]

(* final while loop: fails on a left parenthesis still on the stack *)
RECURSIVE Drain(_, _)
Drain(out, ops) ==
    IF ops = <<>> THEN [ok |-> TRUE, postfix |-> out]
    ELSE IF Top(ops) = LPAREN THEN [ok |-> FALSE, postfix |-> <<>>]
    ELSE Drain(Append(out, Top(ops)), Pop(ops))

RECURSIVE PostfixLoop(_, _, _, _, _)
PostfixLoop(s, i, out, ops, alpha) ==
    IF i > Len(s) THEN Drain(out, ops)
    ELSE LET token == s[i]
             ty == type_of(token, alpha)
         IN  CASE ty = "REGULAR" ->
                    PostfixLoop(s, i + 1, Append(out, token), ops, alpha)
               [] ty = "OPERATOR" ->
                    LET r == PopHigher(token, out, ops)
                    IN  PostfixLoop(s, i + 1, r.out, Append(r.ops, token), alpha)
               [] ty = "LEFT_PAREN" ->
                    PostfixLoop(s, i + 1, out, Append(ops, token), alpha)
               [] ty = "RIGHT_PAREN" ->
                    LET r == PopToParen(out, ops)
                    IN  IF r.ops = <<>> \/ Top(r.ops) # LPAREN
                            THEN [ok |-> FALSE, postfix |-> <<>>]
                            ELSE PostfixLoop(s, i + 1, r.out, Pop(r.ops), alpha)
               [] OTHER -> [ok |-> FALSE, postfix |-> <<>>]

get_postfix(s, alpha) == PostfixLoop(s, 1, <<>>, <<>>, alpha)

(***************************************************************************)
(* get_nfa: Thompson's construction.  The heap of NFANode objects is a     *)
(* sequence; a pointer is a position in it and 0 is the null pointer.      *)
(***************************************************************************)
NFANode(n0, n1, s0, s1) ==
    [n0 |-> n0, n1 |-> n1, s0 |-> s0, s1 |-> s1, id |-> 0, visited |-> FALSE]

NFAFragment(q, f) == [start |-> q, finish |-> f]

(* one iteration of the token loop; ok = FALSE is the early return nullopt *)
NfaToken(token, heap, comps) ==
    IF token = OP_CONCAT \/ token = OP_UNION THEN
        IF Len(comps) < 2 THEN [ok |-> FALSE, heap |-> heap, comps |-> comps]
        ELSE LET y == comps[Len(comps)]
                 x == comps[Len(comps) - 1]
                 rest == SubSeq(comps, 1, Len(comps) - 2)
             IN  IF token = OP_CONCAT THEN
                     [ok |-> TRUE,
                      heap |-> [heap EXCEPT ![x.finish] = NFANode(y.start, 0, S_LAMBDA, 0)],
                      comps |-> Append(rest, NFAFragment(x.start, y.finish))]
                 ELSE
                     LET q == Len(heap) + 1
                         f == Len(heap) + 2
                         h1 == heap \o <<NFANode(x.start, y.start, S_LAMBDA, S_LAMBDA),
                                         NFANode(0, 0, 0, 0)>>
                         h2 == [h1 EXCEPT ![x.finish] = NFANode(f, 0, S_LAMBDA, 0)]
                         h3 == [h2 EXCEPT ![y.finish] = NFANode(f, 0, S_LAMBDA, 0)]
                     IN  [ok |-> TRUE, heap |-> h3,
                          comps |-> Append(rest, NFAFragment(q, f))]
    ELSE IF token = OP_KLEENE \/ token = OP_PLUS \/ token = OP_OPT THEN
        IF comps = <<>> THEN [ok |-> FALSE, heap |-> heap, comps |-> comps]
        ELSE LET x == comps[Len(comps)]
                 rest == SubSeq(comps, 1, Len(comps) - 1)
                 f == Len(heap) + 1
                 q == Len(heap) + 2
                 qnode == IF token = OP_PLUS
                              THEN NFANode(x.start, 0, S_LAMBDA, 0)
                              ELSE NFANode(x.start, f, S_LAMBDA, S_LAMBDA)
                 xfin == IF token = OP_OPT
                             THEN NFANode(f, 0, S_LAMBDA, 0)
                             ELSE NFANode(x.start, f, S_LAMBDA, S_LAMBDA)
                 h1 == heap \o <<NFANode(0, 0, 0, 0), qnode>>
             IN  [ok |-> TRUE,
                  heap |-> [h1 EXCEPT ![x.finish] = xfin],
                  comps |-> Append(rest, NFAFragment(q, f))]
    ELSE
        LET f == Len(heap) + 1
            q == Len(heap) + 2
        IN  [ok |-> TRUE,
             heap |-> heap \o <<NFANode(0, 0, 0, 0), NFANode(f, 0, token, 0)>>,
             comps |-> Append(comps, NFAFragment(q, f))]

RECURSIVE NfaLoop(_, _, _, _)
NfaLoop(pf, i, heap, comps) ==
    IF i > Len(pf) THEN [ok |-> TRUE, heap |-> heap, comps |-> comps]
    ELSE LET r == NfaToken(pf[i], heap, comps)
         IN  IF r.ok THEN NfaLoop(pf, i + 1, r.heap, r.comps) ELSE r

(* the check after the loop: only an empty stack is refused *)
NfaResult(comps) ==
    IF comps = <<>> THEN [ok |-> FALSE, root |-> 0]
    ELSE [ok |-> TRUE, root |-> comps[Len(comps)].start]

(* [ok, root, heap, comps]; comps is the fragment stack when the loop ended *)
get_nfa(pf) ==
    LET r == NfaLoop(pf, 1, <<>>, <<>>)
    IN  IF ~r.ok THEN [ok |-> FALSE, root |-> 0, heap |-> r.heap, comps |-> r.comps]
        ELSE [ok |-> NfaResult(r.comps).ok, root |-> NfaResult(r.comps).root,
              heap |-> r.heap, comps |-> r.comps]

(***************************************************************************)
(* to_graph: pre-order traversal of the node heap into a Graph.            *)
(*                                                                         *)
(* The recursion of to_graph_helper runs on an explicit call stack: a      *)
(* frame [src, at] is an activation of the helper for node src that has    *)
(* reached line "at" (349: before the visit of v0, 353: before the visit   *)
(* of v1, 357: about to return).  m = [heap, g, stack].                    *)
(***************************************************************************)
Transition(dest, symbol) == [dest |-> dest, symbol |-> symbol]

EmptyGraph == [adj |-> <<>>, flags |-> <<>>, start |-> START_UNINITIALIZED]

(* FINAL for a node that lacks either neighbour: FINAL * (!v0 || !v1) *)
LeafFlag_Either(v0, v1) == IF v0 = 0 \/ v1 = 0 THEN FINAL ELSE 0

(* FINAL * (!v0 && !v1) *)
LeafFlag(v0, v1) == IF v0 = 0 /\ v1 = 0 THEN FINAL ELSE 0

(* the call to_graph_helper(src, g) up to line 347 *)
GraphCall(m, src) ==
    IF src = 0 \/ m.heap[src].visited THEN m
    ELSE
        LET id == Len(m.g.adj)
            isFirst == m.g.start = START_UNINITIALIZED
            fl == (IF isFirst THEN START ELSE 0)
                  + LeafFlag(m.heap[src].n0, m.heap[src].n1)
        IN  [heap |-> [m.heap EXCEPT ![src].visited = TRUE, ![src].id = id],
             g |-> [adj |-> Append(m.g.adj, <<>>),
                    flags |-> Append(m.g.flags, fl),
                    start |-> IF isFirst THEN id ELSE m.g.start],
             stack |-> Append(m.stack, [src |-> src, at |-> 349])]

(* adj[src->id].push_back({v->id, symbol}) *)
PushEdge(m, src, v, symbol) ==
    [m EXCEPT !.g.adj[m.heap[src].id + 1] = Append(@, Transition(m.heap[v].id, symbol))]

(* the top activation runs to its next call or to its return *)
GraphStep(m) ==
    LET fr == Top(m.stack)
        src == fr.src
        v0 == m.heap[src].n0
        v1 == m.heap[src].n1
        at(line) == [m EXCEPT !.stack[Len(m.stack)].at = line]
    IN  IF fr.at = 349 THEN
            IF v0 # 0 THEN GraphCall(at(351), v0) ELSE at(353)
        ELSE IF fr.at = 351 THEN
            PushEdge(at(353), src, v0, m.heap[src].s0)
        ELSE IF fr.at = 353 THEN
            IF v1 # 0 THEN GraphCall(at(355), v1) ELSE at(357)
        ELSE IF fr.at = 355 THEN
            PushEdge(at(357), src, v1, m.heap[src].s1)
        ELSE [m EXCEPT !.stack = Pop(m.stack)]

(* at most n steps, stopping when the outermost activation has returned *)
RECURSIVE GraphRun(_, _)
GraphRun(n, m) ==
    IF m.stack = <<>> \/ n = 0 THEN m
    ELSE IF n = 1 THEN GraphStep(m)
    ELSE GraphRun(n - (n \div 2), GraphRun(n \div 2, m))

(* an activation takes at most 5 steps and every node has at most one *)
to_graph_helper(src, heap, g) ==
    GraphRun(5 * Len(heap), GraphCall([heap |-> heap, g |-> g, stack |-> <<>>], src))

(* [heap, g] *)
to_graph(src, heap) ==
    LET m == to_graph_helper(src, heap, EmptyGraph)
    IN  [heap |-> m.heap, g |-> m.g]

(***************************************************************************)
(* Transition ordering: operator< and operator== (std::tie(dest, symbol))  *)
(***************************************************************************)
TransitionLess(x, y) ==
    x.dest < y.dest \/ (x.dest = y.dest /\ x.symbol < y.symbol)

TransitionEq(x, y) == x.dest = y.dest /\ x.symbol = y.symbol

(***************************************************************************)
(* add_transitive_closure.  The helper's recursion runs on an explicit     *)
(* call stack: a frame [src, k] is an activation for node src whose        *)
(* range-for stands at the k-th transition of adj[src].                    *)
(* m = [flags, to_add, stack]; adj is only read while the helper runs.     *)
(***************************************************************************)
(* the closure without the propagation of FINAL *)
PropagateFinal_Dropped(flags, from, dest) == flags

(* flags[from] |= flags[dest] & FINAL *)
PropagateFinal(flags, from, dest) ==
    IF HasFlag(flags[dest + 1], FINAL)
        THEN [flags EXCEPT ![from + 1] = SetFlag(@, FINAL)]
        ELSE flags

(* the call add_transitive_closure_helper(from, src, ...) up to line 378 *)
ClosureCall(m, src) ==
    IF HasFlag(m.flags[src + 1], VISITED) THEN m
    ELSE [m EXCEPT !.flags[src + 1] = SetFlag(@, VISITED),
                   !.stack = Append(@, [src |-> src, k |-> 1])]

(* one iteration of the range-for of the top activation, or its return *)
ClosureStep(m, from, adj) ==
    LET fr == Top(m.stack)
        ts == adj[fr.src + 1]
    IN  IF fr.k > Len(ts) THEN [m EXCEPT !.stack = Pop(m.stack)]
        ELSE LET t == ts[fr.k]
                 m1 == [m EXCEPT !.stack[Len(m.stack)].k = fr.k + 1]
             IN  IF t.symbol = S_LAMBDA
                     THEN ClosureCall(
                              [m1 EXCEPT !.to_add = Append(@, Transition(t.dest, t.symbol)),
                                         !.flags = PropagateFinal(@, from, t.dest)],
                              t.dest)
                     ELSE m1

RECURSIVE ClosureRun(_, _, _, _)
ClosureRun(n, m, from, adj) ==
    IF m.stack = <<>> \/ n = 0 THEN m
    ELSE IF n = 1 THEN ClosureStep(m, from, adj)
    ELSE ClosureRun(n - (n \div 2), ClosureRun(n \div 2, m, from, adj), from, adj)

MaxDegree(adj) ==
    LET lens == {Len(adj[i]) : i \in 1..Len(adj)} \cup {0}
    IN  CHOOSE x \in lens : \A y \in lens : y <= x

(* every activation takes one step per transition and one to return *)
add_transitive_closure_helper(from, src, flags, adj) ==
    ClosureRun(Len(adj) * (MaxDegree(adj) + 1),
               ClosureCall([flags |-> flags, to_add |-> <<>>, stack |-> <<>>], src),
               from, adj)

ClearVisited(flags) == [i \in 1..Len(flags) |-> ClearFlag(flags[i], VISITED)]

(* the body of the loop over src, lines 397-402 *)
ClosureOfSource(g, src) ==
    LET r == add_transitive_closure_helper(src, src, ClearVisited(g.flags), g.adj)
    IN  [g EXCEPT !.flags = r.flags, !.adj[src + 1] = @ \o r.to_add]

RECURSIVE ClosureLoop(_, _)
ClosureLoop(src, g) ==
    IF src >= Len(g.adj) THEN g
    ELSE ClosureLoop(src + 1, ClosureOfSource(g, src))

add_transitive_closure(g) == ClosureLoop(0, g)

(***************************************************************************)
(* remove_lambdas                                                          *)
(***************************************************************************)
NonLambda(ts) == SelectSeq(ts, LAMBDA t : t.symbol # S_LAMBDA)

(* to_add of one u: for the transitions lo..hi of adj[u], in order, the    *)
(* non-lambda transitions of v for every lambda edge u -> v                *)
RECURSIVE CopyThroughLambda(_, _, _, _)
CopyThroughLambda(adj, u, lo, hi) ==
    IF lo > hi THEN <<>>
    ELSE IF lo = hi THEN
        IF adj[u + 1][lo].symbol # S_LAMBDA THEN <<>>
        ELSE NonLambda(adj[adj[u + 1][lo].dest + 1])
    ELSE LET mid == (lo + hi) \div 2
         IN  CopyThroughLambda(adj, u, lo, mid) \o CopyThroughLambda(adj, u, mid + 1, hi)

(* first loop, lines 411-424: adj[u] grows before u + 1 is looked at *)
RECURSIVE FlattenLoop(_, _)
FlattenLoop(u, adj) ==
    IF u >= Len(adj) THEN adj
    ELSE FlattenLoop(u + 1,
                     [adj EXCEPT ![u + 1] =
                         @ \o CopyThroughLambda(adj, u, 1, Len(adj[u + 1]))])

(* std::sort with operator<, then std::unique with operator== and erase:   *)
(* the distinct transitions of ts in increasing order                      *)
SortUnique(ts) ==
    LET S == {ts[i] : i \in 1..Len(ts)}
        rank(t) == Cardinality({u \in S : TransitionLess(u, t)}) + 1
    IN  [i \in 1..Cardinality(S) |-> CHOOSE t \in S : rank(t) = i]

(* remove_lambdas without its second loop *)
Normalize_Skipped(ts) == ts

(* second loop, lines 426-434: partition + erase drops the lambdas (the    *)
(* order partition leaves is overwritten by the sort)                      *)
Normalize(ts) == SortUnique(NonLambda(ts))

remove_lambdas(g) ==
    LET flat == FlattenLoop(0, g.adj)
    IN  [g EXCEPT !.adj = [i \in 1..Len(flat) |-> Normalize(flat[i])]]

(***************************************************************************)
(* 64-bit std::size_t arithmetic for the hash: four 16-bit limbs, least    *)
(* significant first.                                                      *)
(***************************************************************************)
LimbBase == 65536

(* a usize that fits 32 bits in absolute value; usize(-1) is all ones *)
U64(x) ==
    LET hi == IF x < 0 THEN LimbBase - 1 ELSE 0
    IN  <<x % LimbBase, (x \div LimbBase) % LimbBase, hi, hi>>

(* 0x9e3779b9 *)
HashMagic == <<31161, 40503, 0, 0>>

U64Add(a, b) ==
    LET s1 == a[1] + b[1]
        s2 == a[2] + b[2] + (s1 \div LimbBase)
        s3 == a[3] + b[3] + (s2 \div LimbBase)
        s4 == a[4] + b[4] + (s3 \div LimbBase)
    IN  <<s1 % LimbBase, s2 % LimbBase, s3 % LimbBase, s4 % LimbBase>>

(* seed << 6 *)
U64Shl6(a) ==
    <<(a[1] * 64) % LimbBase,
      ((a[2] * 64) % LimbBase) + (a[1] \div 1024),
      ((a[3] * 64) % LimbBase) + (a[2] \div 1024),
      ((a[4] * 64) % LimbBase) + (a[3] \div 1024)>>

(* seed >> 2 *)
U64Shr2(a) ==
    <<(a[1] \div 4) + (a[2] % 4) * 16384,
      (a[2] \div 4) + (a[3] % 4) * 16384,
      (a[3] \div 4) + (a[4] % 4) * 16384,
      a[4] \div 4>>

RECURSIVE XorLimb(_, _)
XorLimb(x, y) ==
    IF x = 0 THEN y
    ELSE IF y = 0 THEN x
    ELSE ((x + y) % 2) + 2 * XorLimb(x \div 2, y \div 2)

U64Xor(a, b) == [i \in 1..4 |-> XorLimb(a[i], b[i])]

(***************************************************************************)
(* The hash tables of libstdc++ (std::unordered_set, std::unordered_map    *)
(* with unique keys and no cached hash code).  A table is the sequence of  *)
(* its nodes in iteration order.  All nodes hang on one list, the nodes of *)
(* one bucket next to each other.  A new node is linked at the head of its *)
(* bucket's group, and at the front of the list when the bucket was empty. *)
(* A rehash links the nodes again, in list order, into the larger table.   *)
(* Copies and moves keep the order.  Bkt(x, B, is_map) is the bucket of    *)
(* node x in a table of B buckets: the table is the map ids when is_map,   *)
(* and a set of indices otherwise.                                         *)
(***************************************************************************)
(* the bucket count of a table that has grown to n nodes: the rehash       *)
(* policy takes 13 buckets at the first insertion and the next listed      *)
(* prime above twice the count whenever the nodes outnumber the buckets    *)
BucketsFor(n) ==
    IF n <= 13 THEN 13 ELSE IF n <= 29 THEN 29 ELSE IF n <= 59 THEN 59 ELSE 127

(* a 64-bit value modulo the bucket count *)
HashMod(h, B) ==
    LET r == LimbBase % B
    IN  (h[1] + r * h[2] + ((r * r) % B) * h[3] + ((r * r * r) % B) * h[4]) % B

(* std::hash<usize> is the identity *)
IndexBucket(x, B) == IF x >= 0 THEN x % B ELSE HashMod(U64(x), B)

(* the node [key, hash, id] of the map ids *)
NodeBucket(e, B) == HashMod(e.hash, B)

Bkt(x, B, is_map) == IF is_map THEN NodeBucket(x, B) ELSE IndexBucket(x, B)

LinkNode(list, x, B, is_map) ==
    LET mates == {i \in 1..Len(list) : Bkt(list[i], B, is_map) = Bkt(x, B, is_map)}
    IN  IF mates = {} THEN <<x>> \o list
        ELSE LET p == CHOOSE i \in mates : \A j \in mates : i <= j
             IN  SubSeq(list, 1, p - 1) \o <<x>> \o SubSeq(list, p, Len(list))

(* the rehash: relinked[k] is the new list once k nodes have moved *)
Relink(old, B, is_map) ==
    LET relinked[k \in 0..Len(old)] ==
            IF k = 0 THEN <<>> ELSE LinkNode(relinked[k - 1], old[k], B, is_map)
    IN  relinked[Len(old)]

(* the insertion of a node x that is not in the table *)
HtInsert(list, x, is_map) ==
    LET n == Len(list)
        B == BucketsFor(n + 1)
        base == IF n > 0 /\ BucketsFor(n) # B THEN Relink(list, B, is_map)
                ELSE list
    IN  LinkNode(base, x, B, is_map)

(***************************************************************************)
(* std::unordered_set<usize>; std::hash<usize> is the identity             *)
(***************************************************************************)
Elems(xs) == {xs[i] : i \in 1..Len(xs)}

SetInsert(xs, x) == IF x \in Elems(xs) THEN xs ELSE HtInsert(xs, x, FALSE)

(* std::hash<std::unordered_set<usize>>: hash_combine in iteration order *)
RECURSIVE HashFrom(_, _, _)
HashFrom(xs, k, seed) ==
    IF k > Len(xs) THEN seed
    ELSE HashFrom(xs, k + 1,
                  U64Xor(seed,
                         U64Add(U64Add(U64Add(U64(xs[k]), HashMagic), U64Shl6(seed)),
                                U64Shr2(seed))))

SubsetHash(xs) == HashFrom(xs, 1, U64(0))

(***************************************************************************)
(* std::unordered_map<std::unordered_set<usize>, usize> ids: its nodes     *)
(* [key, hash, id], hash being the hash of the stored key (recomputed by   *)
(* the table whenever it needs the node's bucket).  Key equality is set    *)
(* equality.  A lookup hashes the query, walks the group of that bucket    *)
(* and stops at the first node whose key equals the query.  Since the hash *)
(* depends on the iteration order, a node with an equal key may sit in     *)
(* another bucket, where the lookup does not see it.                       *)
(* Result of MapFind: position of the node, 0 if none.                     *)
(***************************************************************************)
MapFind(ids, key, h) ==
    LET B == BucketsFor(Len(ids))
        found == {i \in 1..Len(ids) :
                     NodeBucket(ids[i], B) = HashMod(h, B)
                     /\ Elems(ids[i].key) = Elems(key)}
    IN  IF found = {} THEN 0 ELSE CHOOSE i \in found : \A j \in found : i <= j

(* operator[]: value-initializes (id 0) a missing entry; [ids, pos] *)
MapIndex(ids, key) ==
    LET h == SubsetHash(key)
        pos == MapFind(ids, key, h)
        grown == HtInsert(ids, [key |-> key, hash |-> h, id |-> 0], TRUE)
    IN  IF pos # 0 THEN [ids |-> ids, pos |-> pos]
        ELSE [ids |-> grown,
              pos |-> CHOOSE i \in 1..Len(grown) : grown[i].id = 0]

(***************************************************************************)
(* to_dfa_graph                                                            *)
(***************************************************************************)
Edge(src, dest, symbol) == [src |-> src, dest |-> dest, symbol |-> symbol]

(* the inner loop of lines 467-470 for the transitions lo..hi of one state *)
RECURSIVE DestOfState(_, _, _, _, _)
DestOfState(ts, lo, hi, target_symbol, dest_subset) ==
    IF lo > hi THEN dest_subset
    ELSE IF lo = hi THEN
        IF ts[lo].symbol = target_symbol THEN SetInsert(dest_subset, ts[lo].dest)
        ELSE dest_subset
    ELSE LET mid == (lo + hi) \div 2
         IN  DestOfState(ts, mid + 1, hi, target_symbol,
                         DestOfState(ts, lo, mid, target_symbol, dest_subset))

(* the loop of lines 466-471 over the elements lo..hi of src_subset *)
RECURSIVE DestSubset(_, _, _, _, _, _)
DestSubset(nfa, src_subset, lo, hi, target_symbol, dest_subset) ==
    IF lo > hi THEN dest_subset
    ELSE IF lo = hi THEN
        DestOfState(nfa.adj[src_subset[lo] + 1], 1, Len(nfa.adj[src_subset[lo] + 1]),
                    target_symbol, dest_subset)
    ELSE LET mid == (lo + hi) \div 2
         IN  DestSubset(nfa, src_subset, mid + 1, hi, target_symbol,
                        DestSubset(nfa, src_subset, lo, mid, target_symbol, dest_subset))

(* first and last value of target_symbol in the symbol loop *)
FirstTarget == CH_a
LastTarget == CH_z

(* the values of target_symbol, from c on, that do not end in `continue`:  *)
(* the labels of the transitions of the states of src_subset               *)
TargetsFrom(nfa, src_subset, c) ==
    {t \in UNION {{nfa.adj[src_subset[k] + 1][j].symbol
                      : j \in 1..Len(nfa.adj[src_subset[k] + 1])}
                     : k \in 1..Len(src_subset)} :
        c <= t /\ t <= LastTarget}

(* lines 476-488 for one target symbol with a non-empty dest_subset;       *)
(* w = [ids, queue, edges, next_id]                                        *)
SymbolBody(nfa, src_subset, src_subset_id, target_symbol, w) ==
    LET Found(dest_subset, m) ==
            LET fresh == m.ids[m.pos].id = 0
                dest_subset_id == IF fresh THEN w.next_id ELSE m.ids[m.pos].id
            IN  [ids |-> IF fresh THEN [m.ids EXCEPT ![m.pos].id = w.next_id]
                         ELSE m.ids,
                 queue |-> IF fresh THEN Append(w.queue, dest_subset) ELSE w.queue,
                 edges |-> Append(w.edges,
                                  Edge(src_subset_id, dest_subset_id, target_symbol)),
                 next_id |-> IF fresh THEN w.next_id + 1 ELSE w.next_id]
        Lookup(dest_subset) == Found(dest_subset, MapIndex(w.ids, dest_subset))
    IN  Lookup(DestSubset(nfa, src_subset, 1, Len(src_subset), target_symbol, <<>>))

(* the symbol loop, lines 464-489, from target_symbol on *)
RECURSIVE SymbolLoop(_, _, _, _, _)
SymbolLoop(nfa, src_subset, src_subset_id, target_symbol, w) ==
    LET rest == TargetsFrom(nfa, src_subset, target_symbol)
    IN  IF rest = {} THEN w
        ELSE LET c == CHOOSE t \in rest : \A t2 \in rest : t <= t2
             IN  SymbolLoop(nfa, src_subset, src_subset_id, c + 1,
                            SymbolBody(nfa, src_subset, src_subset_id, c, w))

(* the check made with the START mask *)
SubsetIsFinal_StartMask(nfa, src_subset) ==
    \E k \in 1..Len(src_subset) : HasFlag(nfa.flags[src_subset[k] + 1], START)

(* "Check if this subset will become a final node" *)
SubsetIsFinal(nfa, src_subset) ==
    \E k \in 1..Len(src_subset) : HasFlag(nfa.flags[src_subset[k] + 1], FINAL)

(* lines 492-505: the Graph built from edges and finals *)
EdgesFrom(es, src) ==
    LET sel == SelectSeq(es, LAMBDA e : e.src = src)
    IN  [k \in 1..Len(sel) |-> Transition(sel[k].dest - 1, sel[k].symbol)]

BuildDfa(n_id, es, fins) ==
    LET n == n_id - 1
        fl0 == [i \in 1..n |-> IF i \in fins THEN FINAL ELSE 0]
    IN  [adj |-> [i \in 1..n |-> EdgesFrom(es, i)],
         flags |-> [fl0 EXCEPT ![1] = SetFlag(@, START)],
         start |-> 0]

(***************************************************************************)
(* Reference semantics of regular expressions, independent of the          *)
(* pipeline: expression trees, the tree of an infix string by recursive    *)
(* descent, the tree of a postfix string by operand-stack evaluation, the  *)
(* language of a tree, and the walk of a graph over a word.                *)
(* A tree is [op, kids]: a symbol with no kids, *, + or ? with one, the    *)
(* concatenation or the union with two.                                    *)
(***************************************************************************)
Leaf(c) == [op |-> c, kids |-> <<>>]
Node1(op, t) == [op |-> op, kids |-> <<t>>]
Node2(op, l, r) == [op |-> op, kids |-> <<l, r>>]

ParseFail == [ok |-> FALSE, tree |-> Leaf(0), pos |-> 0]

UnaryOps == {OP_KLEENE, OP_PLUS, OP_OPT}

(* union := concat ('|' concat)*      concat := unary (['.'] unary)*        *)
(* unary := atom ('*' | '+' | '?')*   atom := symbol | '(' union ')'        *)
RECURSIVE ParseUnion(_, _, _)
RECURSIVE UnionRest(_, _, _, _)
RECURSIVE ParseConcat(_, _, _)
RECURSIVE ConcatRest(_, _, _, _)
RECURSIVE ParseUnary(_, _, _)
RECURSIVE UnaryRest(_, _, _)
RECURSIVE ParseAtom(_, _, _)

ParseAtom(s, p, alpha) ==
    IF p > Len(s) THEN ParseFail
    ELSE IF s[p] \in alpha THEN [ok |-> TRUE, tree |-> Leaf(s[p]), pos |-> p + 1]
    ELSE IF s[p] = LPAREN THEN
        LET r == ParseUnion(s, p + 1, alpha)
        IN  IF r.ok /\ r.pos <= Len(s) /\ s[r.pos] = RPAREN
                THEN [r EXCEPT !.pos = r.pos + 1]
                ELSE ParseFail
    ELSE ParseFail

UnaryRest(s, p, t) ==
    IF p <= Len(s) /\ s[p] \in UnaryOps
        THEN UnaryRest(s, p + 1, Node1(s[p], t))
        ELSE [ok |-> TRUE, tree |-> t, pos |-> p]

ParseUnary(s, p, alpha) ==
    LET a == ParseAtom(s, p, alpha)
    IN  IF a.ok THEN UnaryRest(s, a.pos, a.tree) ELSE ParseFail

ConcatRest(s, p, left, alpha) ==
    IF p <= Len(s) /\ (s[p] = OP_CONCAT \/ s[p] = LPAREN \/ s[p] \in alpha) THEN
        LET r == ParseUnary(s, IF s[p] = OP_CONCAT THEN p + 1 ELSE p, alpha)
        IN  IF r.ok THEN ConcatRest(s, r.pos, Node2(OP_CONCAT, left, r.tree), alpha)
            ELSE ParseFail
    ELSE [ok |-> TRUE, tree |-> left, pos |-> p]

ParseConcat(s, p, alpha) ==
    LET u == ParseUnary(s, p, alpha)
    IN  IF u.ok THEN ConcatRest(s, u.pos, u.tree, alpha) ELSE ParseFail

UnionRest(s, p, left, alpha) ==
    IF p <= Len(s) /\ s[p] = OP_UNION THEN
        LET r == ParseConcat(s, p + 1, alpha)
        IN  IF r.ok THEN UnionRest(s, r.pos, Node2(OP_UNION, left, r.tree), alpha)
            ELSE ParseFail
    ELSE [ok |-> TRUE, tree |-> left, pos |-> p]

ParseUnion(s, p, alpha) ==
    LET c == ParseConcat(s, p, alpha)
    IN  IF c.ok THEN UnionRest(s, c.pos, c.tree, alpha) ELSE ParseFail

(* [ok, tree]: ok iff the whole string is one expression *)
InfixTree(s, alpha) ==
    LET r == ParseUnion(s, 1, alpha)
    IN  [ok |-> r.ok /\ r.pos = Len(s) + 1, tree |-> r.tree]

(* operand-stack evaluation of a postfix string; [ok, stack] *)
RECURSIVE EvalPostfix(_, _, _)
EvalPostfix(pf, i, stack) ==
    IF i > Len(pf) THEN [ok |-> TRUE, stack |-> stack]
    ELSE IF pf[i] \in UnaryOps THEN
        IF Len(stack) < 1 THEN [ok |-> FALSE, stack |-> stack]
        ELSE EvalPostfix(pf, i + 1,
                         Append(SubSeq(stack, 1, Len(stack) - 1),
                                Node1(pf[i], stack[Len(stack)])))
    ELSE IF pf[i] \in {OP_CONCAT, OP_UNION} THEN
        IF Len(stack) < 2 THEN [ok |-> FALSE, stack |-> stack]
        ELSE EvalPostfix(pf, i + 1,
                         Append(SubSeq(stack, 1, Len(stack) - 2),
                                Node2(pf[i], stack[Len(stack) - 1], stack[Len(stack)])))
    ELSE EvalPostfix(pf, i + 1, Append(stack, Leaf(pf[i])))

(* [ok, tree]: ok iff no operator underflows and one operand remains *)
PostfixTree(pf) ==
    LET r == EvalPostfix(pf, 1, <<>>)
    IN  IF r.ok /\ Len(r.stack) = 1 THEN [ok |-> TRUE, tree |-> r.stack[1]]
        ELSE [ok |-> FALSE, tree |-> Leaf(0)]

(* longest word matched against a regex or walked through a graph *)
MaxWord == 5

WordChars == {CH_a, CH_b}
Words == UNION {[1..k -> WordChars] : k \in 0..MaxWord}

CatLang(A, B) == {x \o y : <<x, y>> \in {z \in A \X B : Len(z[1]) + Len(z[2]) <= MaxWord}}

RECURSIVE StarIter(_, _, _)
StarIter(A, acc, n) ==
    IF n = 0 THEN acc ELSE StarIter(A, acc \cup CatLang(acc, A), n - 1)

StarLang(A) == StarIter(A, {<<>>}, MaxWord)

(* the words of length <= MaxWord that the tree matches *)
RECURSIVE Lang(_)
Lang(t) ==
    IF t.kids = <<>> THEN {<<t.op>>}
    ELSE IF t.op = OP_KLEENE THEN StarLang(Lang(t.kids[1]))
    ELSE IF t.op = OP_PLUS THEN LET A == Lang(t.kids[1]) IN CatLang(A, StarLang(A))
    ELSE IF t.op = OP_OPT THEN Lang(t.kids[1]) \cup {<<>>}
    ELSE IF t.op = OP_CONCAT THEN CatLang(Lang(t.kids[1]), Lang(t.kids[2]))
    ELSE Lang(t.kids[1]) \cup Lang(t.kids[2])

(* the destinations of the c-labelled transitions of the states of S *)
Dests(g, S, c) ==
    UNION {{g.adj[q + 1][k].dest :
               k \in {j \in 1..Len(g.adj[q + 1]) : g.adj[q + 1][j].symbol = c}}
              : q \in S}

(* the states a graph can be in after reading w[i..] from the states S,    *)
(* moving on symbol transitions only                                       *)
RECURSIVE Walk(_, _, _, _)
Walk(g, S, w, i) ==
    IF i > Len(w) THEN S ELSE Walk(g, Dests(g, S, w[i]), w, i + 1)

IsFinal(g, q) == HasFlag(g.flags[q + 1], FINAL)

(* acceptance by an automaton without lambda transitions *)
Accepts(g, w) == \E q \in Walk(g, {g.start}, w, 1) : IsFinal(g, q)

(* lambda closure of a set of states: least fixed point, at most Len(adj) rounds *)
RECURSIVE LambdaClosure(_, _, _)
LambdaClosure(g, S, n) ==
    LET S1 == S \cup Dests(g, S, S_LAMBDA)
    IN  IF n = 0 \/ S1 = S THEN S ELSE LambdaClosure(g, S1, n - 1)

(* every word of at most n symbols is accepted by the lambda-free g1 from  *)
(* the states S1 exactly when the lambda-NFA g0 accepts it from the states *)
(* S0                                                                      *)
RECURSIVE SameWords(_, _, _, _, _)
SameWords(g0, S0, g1, S1, n) ==
    LET C0 == LambdaClosure(g0, S0, Len(g0.adj))
    IN  /\ (\E q \in C0 : IsFinal(g0, q)) <=> (\E q \in S1 : IsFinal(g1, q))
        /\ (n > 0 /\ (C0 # {} \/ S1 # {})) =>
              \A c \in WordChars :
                  SameWords(g0, Dests(g0, C0, c), g1, Dests(g1, S1, c), n - 1)

(***************************************************************************)
(* Bounds of the model                                                     *)
(***************************************************************************)
(* longest regex enumerated exhaustively *)
MaxLen == 4
(* longest postfix sequence handed to get_nfa directly *)
MaxPostfixLen == 4
(* largest graph handed to a graph stage directly: states plus transitions *)
MaxSize == 6
(* applications of the epsilon eliminator to one graph *)
MaxRuns == 2

SeqsUpTo(S, n) == UNION {[1..k -> S] : k \in 0..n}

RegexChars ==
    {CH_a, CH_b, CH_A, LPAREN, RPAREN, OP_UNION, OP_KLEENE, OP_PLUS, OP_OPT, OP_CONCAT}

(* (a|b)*abb *)
Regex_abb ==
    <<LPAREN, CH_a, OP_UNION, CH_b, RPAREN, OP_KLEENE, CH_a, CH_b, CH_b>>

(* b+a?b+a*ba+ *)
Regex_dead ==
    <<CH_b, OP_PLUS, CH_a, OP_OPT, CH_b, OP_PLUS, CH_a, OP_KLEENE, CH_b, CH_a, OP_PLUS>>

(* b*bba?bbab *)
Regex_twice ==
    <<CH_b, OP_KLEENE, CH_b, CH_b, CH_a, OP_OPT, CH_b, CH_b, CH_a, CH_b>>

LongRegexes ==
    { Regex_abb,
      <<LPAREN, CH_a, OP_UNION, CH_b, RPAREN, OP_KLEENE>>,
      <<LPAREN, CH_a, OP_UNION, CH_b, RPAREN, OP_PLUS, CH_a>>,
      <<CH_a, LPAREN, CH_a, OP_UNION, CH_a, RPAREN, OP_KLEENE>>,
      <<LPAREN, CH_a, OP_OPT, CH_b, RPAREN, OP_KLEENE, CH_a>>,
      <<LPAREN, CH_a, CH_b, OP_UNION, CH_b, CH_a, RPAREN, OP_OPT, CH_a>>,
      <<CH_a, OP_KLEENE, CH_b, OP_UNION, CH_b, OP_PLUS, CH_a, OP_OPT>>,
      <<LPAREN, CH_A, OP_UNION, CH_a, RPAREN, OP_KLEENE, CH_A>>,
      Regex_dead,
      Regex_twice }

Regexes == SeqsUpTo(RegexChars, MaxLen) \cup LongRegexes

(* the alphabets of a run: the default, and -a *)
Alphabets == {DEFAULT_ALPHABET, ALL_ALPHANUMS}

VARIABLES
    pc,             \* the statement of main (or of to_dfa_graph) to run next
    in_alphabet,    \* the characters c with in_alphabet[c] set
    infix,          \* argv[optind]
    with_concat_op,
    postfix,
    heap,           \* the NFANode objects
    comps,          \* nfa_components when get_nfa left its loop
    root,
    nfa_graph,
    g_before,       \* nfa_graph as it was when add_transitive_closure was last called
    runs,           \* completed applications of the epsilon eliminator
    next_id, edges, queue, ids, finals,   \* locals of to_dfa_graph
    dfa_graph

vars == <<pc, in_alphabet, infix, with_concat_op, postfix, heap, comps, root,
          nfa_graph, g_before, runs, next_id, edges, queue, ids, finals, dfa_graph>>

FrontEndVars == <<with_concat_op, postfix, heap, comps, root>>
DfaVars == <<next_id, edges, queue, ids, finals, dfa_graph>>

NoDfa ==
    /\ next_id = 1
    /\ edges = <<>>
    /\ queue = <<>>
    /\ ids = <<>>
    /\ finals = {}
    /\ dfa_graph = EmptyGraph

(* main after option parsing and alphabet validation (lines 660-707) *)
Init ==
    /\ pc = "add_concatenation_op"
    /\ in_alphabet \in Alphabets
    /\ infix \in Regexes
    /\ with_concat_op = <<>>
    /\ postfix = <<>>
    /\ heap = <<>>
    /\ comps = <<>>
    /\ root = 0
    /\ nfa_graph = EmptyGraph
    /\ g_before = EmptyGraph
    /\ runs = 0
    /\ NoDfa

(* line 708 *)
AddConcatenationOp ==
    /\ pc = "add_concatenation_op"
    /\ with_concat_op' = add_concatenation_op(infix, in_alphabet)
    /\ pc' = "get_postfix"
    /\ UNCHANGED <<in_alphabet, infix, postfix, heap, comps, root, nfa_graph,
                   g_before, runs, DfaVars>>

(* lines 709-714 *)
GetPostfix ==
    /\ pc = "get_postfix"
    /\ LET r == get_postfix(with_concat_op, in_alphabet)
       IN  /\ postfix' = r.postfix
           /\ pc' = IF r.ok THEN "get_nfa" ELSE "exit_failure"
    /\ UNCHANGED <<in_alphabet, infix, with_concat_op, heap, comps, root, nfa_graph,
                   g_before, runs, DfaVars>>

(* lines 724-729 *)
GetNfa ==
    /\ pc = "get_nfa"
    /\ LET r == get_nfa(postfix)
       IN  /\ heap' = r.heap
           /\ comps' = r.comps
           /\ root' = r.root
           /\ pc' = IF r.ok THEN "to_graph" ELSE "exit_failure"
    /\ UNCHANGED <<in_alphabet, infix, with_concat_op, postfix, nfa_graph,
                   g_before, runs, DfaVars>>

(* line 731 *)
ToGraph ==
    /\ pc = "to_graph"
    /\ LET r == to_graph(root, heap)
       IN  /\ heap' = r.heap
           /\ nfa_graph' = r.g
    /\ pc' = "delete_nodes"
    /\ UNCHANGED <<in_alphabet, infix, with_concat_op, postfix, comps, root,
                   g_before, runs, DfaVars>>

(* lines 733-735 *)
DeleteNodes ==
    /\ pc = "delete_nodes"
    /\ heap' = <<>>
    /\ pc' = "add_transitive_closure"
    /\ UNCHANGED <<in_alphabet, infix, with_concat_op, postfix, comps, root,
                   nfa_graph, g_before, runs, DfaVars>>

(* line 738 *)
AddTransitiveClosure ==
    /\ pc = "add_transitive_closure"
    /\ g_before' = nfa_graph
    /\ nfa_graph' = add_transitive_closure(nfa_graph)
    /\ pc' = "remove_lambdas"
    /\ UNCHANGED <<in_alphabet, infix, FrontEndVars, runs, DfaVars>>

(* line 739 *)
RemoveLambdas ==
    /\ pc = "remove_lambdas"
    /\ nfa_graph' = remove_lambdas(nfa_graph)
    /\ runs' = runs + 1
    /\ pc' = "to_dfa_graph"
    /\ UNCHANGED <<in_alphabet, infix, FrontEndVars, g_before, DfaVars>>

(* the eliminator applied once more to its own result *)
Reapply ==
    /\ pc = "to_dfa_graph"
    /\ runs < MaxRuns
    /\ pc' = "add_transitive_closure"
    /\ UNCHANGED <<in_alphabet, infix, FrontEndVars, nfa_graph, g_before, runs, DfaVars>>

(* to_dfa_graph, lines 440-448 *)
DfaStart ==
    /\ pc = "to_dfa_graph"
    /\ next_id' = 2
    /\ edges' = <<>>
    /\ finals' = {}
    /\ queue' = << <<nfa_graph.start>> >>
    /\ ids' = <<[key |-> <<nfa_graph.start>>,
                 hash |-> SubsetHash(<<nfa_graph.start>>), id |-> 1]>>
    /\ pc' = "dfa_loop"
    /\ UNCHANGED <<in_alphabet, infix, FrontEndVars, nfa_graph, g_before, runs, dfa_graph>>

(* the indices of src_subset are indices of nfa.flags and nfa.adj *)
InBounds(nfa, src_subset) ==
    \A k \in 1..Len(src_subset) :
        src_subset[k] >= 0 /\ src_subset[k] < Len(nfa.adj)

(* one iteration of the while loop, lines 449-490, reading nfa *)
ExpandOn(nfa) ==
    /\ \E m \in {MapIndex(ids, Head(queue))} :
          \E w \in {SymbolLoop(nfa, Head(queue), m.ids[m.pos].id, FirstTarget,
                               [ids |-> m.ids, queue |-> Tail(queue),
                                edges |-> edges, next_id |-> next_id])} :
              /\ finals' = IF SubsetIsFinal(nfa, Head(queue))
                               THEN finals \cup {m.ids[m.pos].id} ELSE finals
              /\ ids' = w.ids
              /\ queue' = w.queue
              /\ edges' = w.edges
              /\ next_id' = w.next_id
    /\ UNCHANGED <<pc, in_alphabet, infix, FrontEndVars, nfa_graph, g_before, runs,
                   dfa_graph>>

DfaExpand ==
    /\ pc = "dfa_loop"
    /\ queue # <<>>
    /\ InBounds(nfa_graph, Head(queue))
    /\ ExpandOn(nfa_graph)

(***************************************************************************)
(* An iteration whose src_subset holds an index outside nfa.flags and      *)
(* nfa.adj: nfa.flags[src] at line 457 and nfa.adj[src] at line 467 read   *)
(* past the vectors, which is undefined behaviour.  Either the read traps  *)
(* and the process dies, or it returns whatever lies there: a flag word    *)
(* with or without FINAL, and a list that is empty or holds a transition.  *)
(***************************************************************************)
StrayFlags == {0, FINAL}
StrayLists == {<<>>, <<Transition(0, CH_a)>>}

(* nfa as those reads see it *)
StrayGraph(nfa, src_subset, f, ts) ==
    LET n == Len(nfa.adj)
        idx == (1..n) \cup {src_subset[k] + 1 : k \in 1..Len(src_subset)}
    IN  [adj |-> [i \in idx |-> IF i \in 1..n THEN nfa.adj[i] ELSE ts],
         flags |-> [i \in idx |-> IF i \in 1..n THEN nfa.flags[i] ELSE f],
         start |-> nfa.start]

DfaOutOfBounds ==
    /\ pc = "dfa_loop"
    /\ queue # <<>>
    /\ ~InBounds(nfa_graph, Head(queue))
    /\ \/ /\ pc' = "crashed"
          /\ UNCHANGED <<in_alphabet, infix, FrontEndVars, nfa_graph, g_before, runs,
                         DfaVars>>
       \/ \E f \in StrayFlags, ts \in StrayLists :
              \E seen \in {StrayGraph(nfa_graph, Head(queue), f, ts)} :
                  ExpandOn(seen)

(* lines 492-505 *)
DfaFinish ==
    /\ pc = "dfa_loop"
    /\ queue = <<>>
    /\ dfa_graph' = BuildDfa(next_id, edges, finals)
    /\ pc' = "output"
    /\ UNCHANGED <<in_alphabet, infix, FrontEndVars, nfa_graph, g_before, runs,
                   next_id, edges, queue, ids, finals>>

Next ==
    \/ AddConcatenationOp
    \/ GetPostfix
    \/ GetNfa
    \/ ToGraph
    \/ DeleteNodes
    \/ AddTransitiveClosure
    \/ RemoveLambdas
    \/ DfaStart
    \/ DfaExpand
    \/ DfaFinish

Spec == Init /\ [][Next]_vars

(***************************************************************************)
(* get_nfa and to_graph on an arbitrary postfix sequence                   *)
(***************************************************************************)
PostfixChars == {CH_a, CH_b, OP_CONCAT, OP_UNION, OP_KLEENE, OP_PLUS, OP_OPT}

InitNfa ==
    /\ pc = "get_nfa"
    /\ in_alphabet = DEFAULT_ALPHABET
    /\ infix = <<>>
    /\ with_concat_op = <<>>
    /\ postfix \in SeqsUpTo(PostfixChars, MaxPostfixLen)
    /\ heap = <<>>
    /\ comps = <<>>
    /\ root = 0
    /\ nfa_graph = EmptyGraph
    /\ g_before = EmptyGraph
    /\ runs = 0
    /\ NoDfa

NextNfa ==
    \/ GetNfa
    \/ ToGraph

SpecNfa == InitNfa /\ [][NextNfa]_vars

(***************************************************************************)
(* Graphs of n states and k transitions, n + k <= MaxSize, over the labels *)
(* of a sequence of L labels.  A transition set is a strictly increasing   *)
(* sequence of codes (src * n + dest) * L + label; every adjacency list is *)
(* in decreasing code order when sorted is FALSE and in increasing order   *)
(* otherwise.                                                              *)
(***************************************************************************)
EdgeCodes(n, L) ==
    UNION {{c \in [1..k -> 0..(L * n * n - 1)] : \A i \in 1..(k - 1) : c[i] < c[i + 1]}
              : k \in 0..(MaxSize - n)}

CodeSrc(c, n, L) == c \div (L * n)
CodeDest(c, n, L) == (c \div L) % n
CodeLabel(c, labels) == labels[(c % Len(labels)) + 1]

AdjOf(codes, n, u, labels, sorted) ==
    LET mine == SelectSeq(codes, LAMBDA c : CodeSrc(c, n, Len(labels)) = u)
        k == Len(mine)
    IN  [i \in 1..k |->
            LET c == IF sorted THEN mine[i] ELSE mine[k + 1 - i]
            IN  Transition(CodeDest(c, n, Len(labels)), CodeLabel(c, labels))]

GraphOf(codes, n, fin, labels, sorted) ==
    [adj |-> [i \in 1..n |-> AdjOf(codes, n, i - 1, labels, sorted)],
     flags |-> [i \in 1..n |-> (IF i = 1 THEN START ELSE 0)
                               + (IF (i - 1) \in fin THEN FINAL ELSE 0)],
     start |-> 0]

(* the graphs drawn for one choice of labels and order *)
IsDrawnGraph(g, labels, sorted) ==
    \E n \in 1..(MaxSize \div 2) :
        \E codes \in EdgeCodes(n, Len(labels)) :
            \E fin \in SUBSET (0..(n - 1)) :
                g = GraphOf(codes, n, fin, labels, sorted)

InitEps ==
    /\ pc = "add_transitive_closure"
    /\ in_alphabet = DEFAULT_ALPHABET
    /\ infix = <<>>
    /\ with_concat_op = <<>>
    /\ postfix = <<>>
    /\ heap = <<>>
    /\ comps = <<>>
    /\ root = 0
    /\ IsDrawnGraph(nfa_graph, <<S_LAMBDA, CH_a, CH_b>>, FALSE)
    /\ g_before = EmptyGraph
    /\ runs = 0
    /\ NoDfa

NextEps ==
    \/ AddTransitiveClosure
    \/ RemoveLambdas
    \/ Reapply

SpecEps == InitEps /\ [][NextEps]_vars

(* the graphs without states: Graph{} and the graph as to_graph sets it up *)
NoStates ==
    {[adj |-> <<>>, flags |-> <<>>, start |-> s] : s \in {0, START_UNINITIALIZED}}

InitDfa ==
    /\ pc = "to_dfa_graph"
    /\ in_alphabet = DEFAULT_ALPHABET
    /\ infix = <<>>
    /\ with_concat_op = <<>>
    /\ postfix = <<>>
    /\ heap = <<>>
    /\ comps = <<>>
    /\ root = 0
    /\ \/ IsDrawnGraph(nfa_graph, <<CH_a, CH_b>>, TRUE)
       \/ nfa_graph \in NoStates
    /\ g_before = EmptyGraph
    /\ runs = 0
    /\ NoDfa

NextDfa ==
    \/ DfaStart
    \/ DfaExpand
    \/ DfaOutOfBounds
    \/ DfaFinish

SpecDfa == InitDfa /\ [][NextDfa]_vars

(***************************************************************************)
(* Properties                                                              *)
(***************************************************************************)
Word_abb == <<CH_a, CH_b, CH_b>>

(* C1: with the default alphabet, whenever the pipeline accepts a regex,   *)
(* the regex is a well-formed expression and the DFA, walked from its      *)
(* start state, accepts a word exactly when the word is in the language of *)
(* the regex; for (a|b)*abb it accepts abb, aabb, babb and rejects ab, a,  *)
(* abbb.                                                                   *)
C1_EndToEndAcceptance ==
    (pc = "output" /\ in_alphabet = DEFAULT_ALPHABET) =>
        /\ InfixTree(infix, in_alphabet).ok
        /\ \A w \in Words :
              Accepts(dfa_graph, w) <=> w \in Lang(InfixTree(infix, in_alphabet).tree)
        /\ infix = Regex_abb =>
              /\ \A w \in {Word_abb, <<CH_a>> \o Word_abb, <<CH_b>> \o Word_abb} :
                    Accepts(dfa_graph, w)
              /\ \A w \in {<<CH_a, CH_b>>, <<CH_a>>, Word_abb \o <<CH_b>>} :
                    ~Accepts(dfa_graph, w)

(* C2: when to_dfa_graph has returned, every subset S with DFA id i and    *)
(* every symbol c of the run's alphabet with a c-labelled transition out   *)
(* of S have an edge from i labelled c to the DFA state of the union of    *)
(* the c-destinations.                                                     *)
C2_EveryAlphabetSymbol ==
    pc = "output" =>
        \A i \in 1..Len(ids) : \A c \in in_alphabet :
            LET D == Dests(nfa_graph, Elems(ids[i].key), c)
            IN  D # {} =>
                    \E k \in 1..Len(edges) :
                        /\ edges[k].src = ids[i].id
                        /\ edges[k].symbol = c
                        /\ \E j \in 1..Len(ids) :
                              ids[j].id = edges[k].dest /\ Elems(ids[j].key) = D

(* C3: the subset-to-id map is a bijection onto the DFA states created:    *)
(* subsets that are equal as sets have the same id, the ids in the map are *)
(* exactly the ids handed out, and the lookup of the subset about to be    *)
(* dequeued finds a non-zero id.                                           *)
C3_SubsetIdBijection ==
    /\ \A i, j \in 1..Len(ids) :
          Elems(ids[i].key) = Elems(ids[j].key) => ids[i].id = ids[j].id
    /\ {ids[i].id : i \in 1..Len(ids)} = 1..(next_id - 1)
    /\ (pc = "dfa_loop" /\ queue # <<>>) =>
          LET pos == MapFind(ids, Head(queue), SubsetHash(Head(queue)))
          IN  pos # 0 /\ ids[pos].id # 0

(* C4: after add_transitive_closure and remove_lambdas the graph has no    *)
(* lambda transition and the same start index, and from every state, read  *)
(* as a lambda-free NFA, it accepts a word (of at most MaxWord symbols)    *)
(* exactly when the graph before, read as a lambda-NFA, accepted it from   *)
(* that state.                                                             *)
C4_LanguagePreserved ==
    (pc = "to_dfa_graph" /\ runs = 1) =>
        /\ \A i \in 1..Len(nfa_graph.adj) : NonLambda(nfa_graph.adj[i]) = nfa_graph.adj[i]
        /\ nfa_graph.start = g_before.start
        /\ \A q \in 0..(Len(nfa_graph.adj) - 1) :
              SameWords(g_before, {q}, nfa_graph, {q}, MaxWord)

(* a lambda cycle through the start state, whose own transitions are all   *)
(* lambdas, and the word a accepted after the elimination                  *)
C4_Witness ==
    /\ pc = "to_dfa_graph"
    /\ runs = 1
    /\ \A k \in 1..Len(g_before.adj[1]) : g_before.adj[1][k].symbol = S_LAMBDA
    /\ \E v \in 2..Len(g_before.adj) :
          /\ Transition(v - 1, S_LAMBDA) \in Elems(g_before.adj[1])
          /\ Transition(0, S_LAMBDA) \in Elems(g_before.adj[v])
    /\ Accepts(nfa_graph, <<CH_a>>)

(* C5: get_nfa succeeds only if exactly one fragment is left on the        *)
(* fragment stack after the last postfix token.                            *)
C5_ExactlyOneFragment ==
    pc = "to_graph" => Len(comps) = 1

Regex_star == <<CH_a, OP_KLEENE>>

(* C6 as amended: for a* the start state of the DFA is FINAL and its only  *)
(* transition is labelled a and leads to a second state, which is FINAL    *)
(* and whose only transition is a self-loop on a.                          *)
C6_StarReachesLoop ==
    (pc = "output" /\ infix = Regex_star) =>
        LET q == dfa_graph.start + 1
        IN  /\ HasFlag(dfa_graph.flags[q], FINAL)
            /\ Len(dfa_graph.adj[q]) = 1
            /\ dfa_graph.adj[q][1].symbol = CH_a
            /\ LET d == dfa_graph.adj[q][1].dest + 1
               IN  /\ d # q
                   /\ HasFlag(dfa_graph.flags[d], FINAL)
                   /\ dfa_graph.adj[d] = <<Transition(d - 1, CH_a)>>

C6_Witness ==
    pc = "output" /\ infix = Regex_star /\ Len(dfa_graph.adj) = 2

(* C6 as stated: for a* the start state of the DFA is FINAL and the        *)
(* transition labelled a that leaves it leads back to it.                  *)
C6_StartSelfLoop ==
    (pc = "output" /\ infix = Regex_star) =>
        LET q == dfa_graph.start + 1
        IN  /\ HasFlag(dfa_graph.flags[q], FINAL)
            /\ \E k \in 1..Len(dfa_graph.adj[q]) :
                  dfa_graph.adj[q][k] = Transition(dfa_graph.start, CH_a)

(* C7 as amended: when get_postfix accepts, the postfix form is well       *)
(* formed exactly when the infix input is a well-formed expression, and    *)
(* then the tree of the postfix form is the tree of the infix input.       *)
C7_PostfixRoundTrip ==
    pc = "get_nfa" =>
        /\ PostfixTree(postfix).ok <=> InfixTree(infix, in_alphabet).ok
        /\ PostfixTree(postfix).ok =>
              PostfixTree(postfix).tree = InfixTree(infix, in_alphabet).tree

(* a|ba, where precedence and grouping decide the tree *)
C7_Witness ==
    /\ pc = "get_nfa"
    /\ infix = <<CH_a, OP_UNION, CH_b, CH_a>>
    /\ postfix = <<CH_a, CH_b, CH_a, OP_CONCAT, OP_UNION>>
    /\ PostfixTree(postfix).ok

(* C7 as stated: when get_postfix accepts, the postfix form is well formed *)
(* and its tree is the tree of the infix input.                            *)
C7_AlwaysWellFormed ==
    pc = "get_nfa" =>
        /\ PostfixTree(postfix).ok
        /\ PostfixTree(postfix).tree = InfixTree(infix, in_alphabet).tree

(* C8 as amended: a second application of add_transitive_closure and       *)
(* remove_lambdas leaves every adjacency list, the START and FINAL flags   *)
(* of every state and the start index unchanged.                           *)
C8_IdempotentUpToVisited ==
    (pc = "to_dfa_graph" /\ runs = 2) =>
        /\ nfa_graph.adj = g_before.adj
        /\ nfa_graph.start = g_before.start
        /\ ClearVisited(nfa_graph.flags) = ClearVisited(g_before.flags)

(* a second application that changed a flag word of a graph with a         *)
(* transition                                                              *)
C8_Witness ==
    /\ pc = "to_dfa_graph"
    /\ runs = 2
    /\ nfa_graph.flags # g_before.flags
    /\ \E i \in 1..Len(nfa_graph.adj) : nfa_graph.adj[i] # <<>>

(* C8 as stated: a second application leaves every adjacency list, every   *)
(* flag word and the start index unchanged.                                *)
C8_Idempotent ==
    (pc = "to_dfa_graph" /\ runs = 2) => nfa_graph = g_before

(* C9: in the graph to_dfa_graph returns, no state has two transitions     *)
(* labelled with the same symbol.                                          *)
C9_Deterministic ==
    pc = "output" =>
        \A i \in 1..Len(dfa_graph.adj) :
            \A j, k \in 1..Len(dfa_graph.adj[i]) :
                dfa_graph.adj[i][j].symbol = dfa_graph.adj[i][k].symbol => j = k

(* C10: the graph to_graph returns has exactly one START state, the state  *)
(* of index start, and exactly one FINAL state, which is the exit of the   *)
(* fragment on top of the stack and the only state without transitions.    *)
C10_OneStartOneFinal ==
    pc = "delete_nodes" =>
        LET n == Len(nfa_graph.adj)
            starts == {i \in 1..n : HasFlag(nfa_graph.flags[i], START)}
            exits == {i \in 1..n : HasFlag(nfa_graph.flags[i], FINAL)}
            sinks == {i \in 1..n : nfa_graph.adj[i] = <<>>}
        IN  /\ starts = {nfa_graph.start + 1}
            /\ Cardinality(exits) = 1
            /\ exits = {heap[Top(comps).finish].id + 1}
            /\ sinks = exits

(* the graph of a union: six states *)
C10_Witness ==
    /\ pc = "delete_nodes"
    /\ postfix = <<CH_a, CH_b, OP_UNION>>
    /\ Len(nfa_graph.adj) = 6

(* C11: to_dfa_graph never fails, and on an NFA graph without states it    *)
(* reads no state's flags or adjacency list (its loop body never runs) and *)
(* returns a DFA with no states and no transitions.                        *)
C11_EmptyGivesEmpty ==
    /\ pc # "crashed"
    /\ (pc = "dfa_loop" /\ nfa_graph.adj = <<>>) => queue = <<>>
    /\ (pc = "output" /\ nfa_graph.adj = <<>>) =>
          dfa_graph.adj = <<>> /\ dfa_graph.flags = <<>>

====
